---- MODULE Spec2Model ----
(***************************************************************************)
(* Model of jarvis/memory.py: the chunked semantic memory store.           *)
(*                                                                         *)
(* Texts are sequences of one-character strings.  Similarities are the     *)
(* float dot products of the code in fixed point (units of 0.01).  Python  *)
(* strings are immutable objects and the tables hold references to them:   *)
(* a table cell holds a text as its index in TextPool.                     *)
(***************************************************************************)
EXTENDS Integers, Sequences, FiniteSets, TLC

(***************************************************************************)
(* Program constants (memory.py:14-19).                                    *)
(***************************************************************************)
SIMILARITY_THRESHOLD == 30
MIN_RESULTS == 3
CHUNK_SIZE == 250
CHUNK_OVERLAP == 50
\* the provider's dimension (memory.py:13), at the size of the model's vectors
EMBEDDING_DIM == 2
\* claude_runner.py:16, in quarters of an hour
SESSION_TIMEOUT == 2

(***************************************************************************)
(* Bounds of the model.                                                    *)
(***************************************************************************)
\* saves attempted over the whole run (successful or failed)
MaxSaves == 3
\* calls over the whole run in which the provider or a file write fails
MaxFaults == 1
\* characters of a text given to chunk_text when its loop is followed
MaxTextLen == 4
\* the latest time.time() of a run, in quarters of an hour
MaxTime == 3
\* webhook deliveries over the whole run
MaxDeliveries == 3

(***************************************************************************)
(* Python string helpers used by chunk_text.                               *)
(***************************************************************************)
Whitespace == {" ", "\n", "\t", "\r"}
Terminal == {".", "!", "?", "\n"}

Rep(c, n) == [i \in 1..n |-> c]

\* 1-based index of the first character at or after i that is not whitespace
\* (Len(s)+1 when there is none): the end of a greedy \s+ match.
SkipWs(s, i) ==
    CHOOSE k \in i..(Len(s) + 1) :
        /\ k > Len(s) \/ s[k] \notin Whitespace
        /\ \A m \in i..(k - 1) : s[m] \in Whitespace

\* 1-based index of the last character at or before i that is not whitespace
\* (0 when there is none)
SkipWsBack(s, i) ==
    i - (CHOOSE d \in 0..i :
            /\ d = i \/ s[i - d] \notin Whitespace
            /\ \A m \in (i - d + 1)..i : s[m] \in Whitespace)

\* str.strip()
strip(s) ==
    LET a == SkipWs(s, 1)
        b == SkipWsBack(s, Len(s))
    IN  IF a > b THEN <<>> ELSE SubSeq(s, a, b)

\* str.find(c): 0-based index of the first c, -1 when there is none
find(s, c) ==
    IF \A i \in 1..Len(s) : s[i] # c THEN -1
    ELSE (CHOOSE i \in 1..Len(s) :
             s[i] = c /\ \A m \in 1..(i - 1) : s[m] # c) - 1

\* the regular expression (?<=[.!?\n])\s+ matches at 1-based index i: the
\* character is whitespace and the one before it is a terminal
match_at(text, i) ==
    i > 1 /\ text[i - 1] \in Terminal /\ text[i] \in Whitespace

\* re.split(r'(?<=[.!?\n])\s+', text) from the piece that begins at start:
\* the first match at or after start ends the piece and takes the whole run
\* of whitespace
RECURSIVE resplit(_, _)
resplit(text, start) ==
    IF \A i \in start..Len(text) : ~match_at(text, i)
    THEN <<SubSeq(text, start, Len(text))>>
    ELSE LET i == CHOOSE k \in start..Len(text) :
                     match_at(text, k) /\ \A m \in start..(k - 1) : ~match_at(text, m)
         IN  <<SubSeq(text, start, i - 1)>> \o resplit(text, SkipWs(text, i))

\* the overlap seed of the next chunk (memory.py:40-44)
overlap_seed(current_chunk, overlap) ==
    LET overlap_text == SubSeq(current_chunk,
                               Len(current_chunk) - overlap + 1,
                               Len(current_chunk))
        space_idx == find(overlap_text, " ")
    IN  IF space_idx > 0
        THEN SubSeq(overlap_text, space_idx + 2, Len(overlap_text))
        ELSE overlap_text

\* a loop that starts the buffer after a closed chunk with the overlap seed
\* alone
RECURSIVE chunk_loop_seed_only(_, _, _, _, _)
chunk_loop_seed_only(sentences, k, st, chunk_size, overlap) ==
    IF k > Len(sentences) THEN st
    ELSE
      LET sentence == sentences[k]
          cur == st.current_chunk
          nxt ==
            IF Len(cur) + Len(sentence) > chunk_size /\ cur # <<>>
            THEN [chunks |-> Append(st.chunks, strip(cur)),
                  current_chunk |->
                     IF overlap > 0 /\ Len(cur) > overlap
                     THEN overlap_seed(cur, overlap)
                     ELSE sentence]
            ELSE [chunks |-> st.chunks,
                  current_chunk |->
                     IF cur # <<>> THEN strip(cur \o <<" ">> \o sentence)
                     ELSE sentence]
      IN  chunk_loop_seed_only(sentences, k + 1, nxt, chunk_size, overlap)

\* the for loop of chunk_text (memory.py:33-49); st = [chunks, current_chunk]
RECURSIVE chunk_loop(_, _, _, _, _)
chunk_loop(sentences, k, st, chunk_size, overlap) ==
    IF k > Len(sentences) THEN st
    ELSE
      LET sentence == sentences[k]
          cur == st.current_chunk
          nxt ==
            IF Len(cur) + Len(sentence) > chunk_size /\ cur # <<>>
            THEN [chunks |-> Append(st.chunks, strip(cur)),
                  current_chunk |->
                     IF overlap > 0 /\ Len(cur) > overlap
                     THEN overlap_seed(cur, overlap) \o <<" ">> \o sentence
                     ELSE sentence]
            ELSE [chunks |-> st.chunks,
                  current_chunk |->
                     IF cur # <<>> THEN strip(cur \o <<" ">> \o sentence)
                     ELSE sentence]
      IN  chunk_loop(sentences, k + 1, nxt, chunk_size, overlap)

\* a chunk_text without the early return for a short text
chunk_text_always_split(text, chunk_size, overlap) ==
    LET sentences == resplit(text, 1)
        st == chunk_loop(sentences, 1,
                         [chunks |-> <<>>, current_chunk |-> <<>>],
                         chunk_size, overlap)
        chunks == IF strip(st.current_chunk) # <<>>
                  THEN Append(st.chunks, strip(st.current_chunk))
                  ELSE st.chunks
    IN  IF chunks # <<>> THEN chunks ELSE <<text>>

\* chunk_text(text, chunk_size, overlap) (memory.py:22-55)
chunk_text(text, chunk_size, overlap) ==
    IF Len(text) <= chunk_size THEN <<text>>
    ELSE
      LET sentences == resplit(text, 1)
          st == chunk_loop(sentences, 1,
                           [chunks |-> <<>>, current_chunk |-> <<>>],
                           chunk_size, overlap)
          chunks == IF strip(st.current_chunk) # <<>>
                    THEN Append(st.chunks, strip(st.current_chunk))
                    ELSE st.chunks
      IN  IF chunks # <<>> THEN chunks ELSE <<text>>

(***************************************************************************)
(* Inputs: the notes saved and the queries asked.                          *)
(***************************************************************************)
Sentence1 == Rep("a", 100) \o <<" ">> \o Rep("b", 24) \o <<".">>
Sentence2 == Rep("b", 100) \o <<" ">> \o Rep("c", 24) \o <<".">>
Sentence3 == Rep("c", 99) \o <<".">>

\* a note of three sentences that chunk_text splits into three chunks
TextLong == Sentence1 \o <<" ">> \o Sentence2 \o <<" ">> \o Sentence3
TextD == <<"d", "o", "g", ".">>
TextC == <<"c", "a", "t", ".">>

Contents == {TextLong, TextD, TextC}

QueryX == <<"x">>
QueryY == <<"y">>

\* <<query, threshold, min_results>> of a search: the defaults, and a high
\* threshold with a floor of one result
Searches ==
    {<<QueryX, SIMILARITY_THRESHOLD, MIN_RESULTS>>, <<QueryX, 90, 1>>,
     <<QueryY, 90, 1>>}

(***************************************************************************)
(* The string objects of a run: the inputs and the chunks chunk_text makes *)
(* of them.  intern fails (no index to choose) on a text that is not here, *)
(* so the pool is checked by every save, not assumed.                      *)
(***************************************************************************)
TextPool ==
    << TextLong, TextD, TextC, QueryX, QueryY,
       Sentence1,
       Rep("b", 24) \o <<".", " ">> \o Sentence2,
       Rep("c", 24) \o <<".", " ">> \o Sentence3 >>

text_of(ref) == TextPool[ref]

intern(text) ==
    LET pool == TextPool
    IN  CHOOSE ref \in 1..Len(pool) :
           /\ pool[ref] = text
           /\ \A r \in 1..Len(pool) : pool[r] = text => ref <= r

(***************************************************************************)
(* The embedding provider (the OpenAI embeddings endpoint behind _embed    *)
(* and _embed_batch).  It is a function of the text: here the vector is    *)
(* fixed by the first character.  Components are in units of 0.01, except  *)
(* for the two query texts, which embed to the unit vectors of the axes,   *)
(* so that a chunk's similarity to a query is one of its components.       *)
(***************************************************************************)
embedding_of(text) ==
    IF text = <<>> THEN <<0, 0>>
    ELSE CASE text[1] = "a" -> <<90, 20>>
           [] text[1] = "b" -> <<50, 95>>
           [] text[1] = "c" -> <<10, 40>>
           [] text[1] = "d" -> <<50, 60>>
           [] text[1] = "x" -> <<1, 0>>
           [] text[1] = "y" -> <<0, 1>>
           [] OTHER -> <<0, 0>>

\* _embed(text) (memory.py:98-104)
_embed(text) == embedding_of(text)

\* _embed_batch(texts) (memory.py:106-112): one vector per input, in order
_embed_batch(texts) == [i \in 1..Len(texts) |-> embedding_of(texts[i])]

\* numpy's a @ b for two vectors
RECURSIVE dot_from(_, _, _)
dot_from(a, b, i) ==
    IF i > Len(a) THEN 0 ELSE a[i] * b[i] + dot_from(a, b, i + 1)

dot(a, b) == dot_from(a, b, 1)

(***************************************************************************)
(* State.                                                                  *)
(***************************************************************************)
VARIABLES
    loaded,             \* self._memories is not None
    memories,           \* self._memories: rows [id, content, created_at]
    chunks,             \* self._chunks: rows [memory_id, chunk_index, chunk_text, embedding]
    chunk_embeddings,   \* self._chunk_embeddings: the matrix, a sequence of rows
    memories_file,      \* data/memories.parquet: [exists, rows]
    chunks_file,        \* data/chunks.parquet: [exists, rows]
    clock,              \* datetime.now(), in microsecond ticks
    faults,             \* calls so far in which the provider or a write failed
    stored,             \* history: the ids save has returned and delete has
                        \* not returned True for since
    threads,            \* the call each thread of the process is executing
    last,               \* the last call: its arguments, outcome and return value
    chunker,            \* the frame of the chunk_text call that is followed
    sessions_file,      \* data/sessions.json: user_id -> session entry
    time,               \* time.time(), in quarters of an hour
    recorded,           \* history: the last update_session of each user
    ran,                \* the last ClaudeRunner call and what it returned
    _processing_messages,   \* main.py's set of in-flight message ids
    messages_file,      \* data/messages.json: the ids MessageStore holds
    tasks,              \* the process_message task of each webhook delivery
    claude_runs         \* history: the claude.run calls made per message id

\* the variables of the memory store
store_vars == <<loaded, memories, chunks, chunk_embeddings, memories_file,
                chunks_file, clock, faults, stored, threads, last>>

\* the variables of ClaudeRunner's session tracking
runner_vars == <<sessions_file, time, recorded, ran>>

\* the variables of the webhook server
webhook_vars == <<_processing_messages, messages_file, tasks, claude_runs>>

\* what is outside the memory store
app_vars == <<chunker, runner_vars, webhook_vars>>

vars == <<store_vars, app_vars>>

\* the save calls made so far (each reads the clock twice)
saves == clock \div 2

NoCall == [op |-> "none", outcome |-> "ok"]

\* the threads that call the one MemoryManager of the process
Threads == {"t1", "t2"}

\* a thread that is not inside a call
Idle == [pc |-> "idle"]

\* the ret of a call that raised: it returned nothing
Raised == "raised"

\* Python's None
None == "None"

\* the users who write to the assistant, and the session ids the CLI hands out
Users == {"u1", "u2"}
SessionIds == {"s1", "s2"}

\* sessions.get(user_id, {}) of a user without an entry: .get("session_id")
\* is None and .get("last_activity", 0) is 0 (claude_runner.py:109-112)
NoEntry == [session_id |-> None, last_activity |-> 0]

\* no update_session call for the user so far
NoRecord == [session_id |-> None, finished |-> TRUE, at |-> 0]

\* the messages the platform delivers; a delivery of the same message id
\* carries the same message
Messages ==
    {[message_id |-> "m1", from |-> "u1", type |-> "audio"],
     [message_id |-> "m2", from |-> "u1", type |-> "text"],
     [message_id |-> "m3", from |-> "u2", type |-> "sticker"]}

MessageIds == {m.message_id : m \in Messages}

Deliveries == 1..MaxDeliveries

\* MemoryManager.__init__ (memory.py:61-69) in a fresh data directory
InitStore ==
    /\ loaded = FALSE
    /\ memories = <<>>
    /\ chunks = <<>>
    /\ chunk_embeddings = <<>>
    /\ memories_file = [exists |-> FALSE, rows |-> <<>>]
    /\ chunks_file = [exists |-> FALSE, rows |-> <<>>]
    /\ clock = 0
    /\ faults = 0
    /\ stored = {}
    /\ threads = [t \in Threads |-> Idle]
    /\ last = NoCall

\* ClaudeRunner.__init__ (claude_runner.py:89-94): no sessions.json yet
InitRunner ==
    /\ sessions_file = [u \in Users |-> NoEntry]
    /\ time = 0
    /\ recorded = [u \in Users |-> NoRecord]
    /\ ran = NoCall

\* main.py:36-37, 50: the server before the first delivery, no messages.json
InitWebhook ==
    /\ _processing_messages = {}
    /\ messages_file = {}
    /\ tasks = [d \in Deliveries |-> Idle]
    /\ claude_runs = [m \in MessageIds |-> 0]

\* the process after start-up, with no chunk_text call followed
Init ==
    /\ InitStore
    /\ InitRunner
    /\ InitWebhook
    /\ chunker = Idle

\* the environment's part of a call: whether it may fail this time
fault(outcome) ==
    IF outcome = "ok" THEN UNCHANGED faults
    ELSE faults < MaxFaults /\ faults' = faults + 1

column(rows, name) == [i \in 1..Len(rows) |-> rows[i][name]]

values(seq) == {seq[i] : i \in 1..Len(seq)}

min(a, b) == IF a <= b THEN a ELSE b

maximum(S) == CHOOSE x \in S : \A y \in S : y <= x

\* np.vstack(self._chunks["embedding"].values): the matrix rebuilt from the
\* chunk rows
vstack_embeddings(rows) == column(rows, "embedding")

\* a _load without the early return: it reads the files on every call
_load_every_call ==
    LET ms == IF memories_file.exists THEN memories_file.rows ELSE <<>>
        cs == IF chunks_file.exists THEN chunks_file.rows ELSE <<>>
    IN  [memories |-> ms, chunks |-> cs,
         chunk_embeddings |-> IF chunks_file.exists /\ Len(cs) > 0
                              THEN vstack_embeddings(cs) ELSE <<>>]

\* _load (memory.py:71-91): the tables and the matrix after the call;
\* np.zeros((0, EMBEDDING_DIM)) is the matrix of no rows
_load ==
    IF loaded
    THEN [memories |-> memories, chunks |-> chunks,
          chunk_embeddings |-> chunk_embeddings]
    ELSE LET ms == IF memories_file.exists THEN memories_file.rows ELSE <<>>
             cs == IF chunks_file.exists THEN chunks_file.rows ELSE <<>>
         IN  [memories |-> ms, chunks |-> cs,
              chunk_embeddings |-> IF chunks_file.exists /\ Len(cs) > 0
                                   THEN vstack_embeddings(cs) ELSE <<>>]

\* a _save that writes the memory table only
_save_memories_only(ms, cs, outcome) ==
    [memories_file |-> IF outcome = "write_memories_error" THEN memories_file
                       ELSE [exists |-> TRUE, rows |-> ms],
     chunks_file |-> chunks_file]

\* _save (memory.py:93-96): the two files after the writes; outcome names the
\* write that raises, if one does (a write that raises leaves its file as it
\* was, and the write after it does not happen)
_save(ms, cs, outcome) ==
    [memories_file |-> IF outcome = "write_memories_error" THEN memories_file
                       ELSE [exists |-> TRUE, rows |-> ms],
     chunks_file |-> IF outcome \in {"write_memories_error", "write_chunks_error"}
                     THEN chunks_file
                     ELSE [exists |-> TRUE, rows |-> cs]]

\* datetime.now().strftime("%Y%m%d_%H%M%S_%f"): the digits of the tick at
\* fixed width, so two ids are equal exactly when the ticks are
strftime(t) == <<"id", t>>

\* datetime.now().isoformat()
isoformat(t) == <<"iso", t>>

\* the row appended to the memory table (memory.py:121-126)
new_memory(memory_id, content, now) ==
    [id |-> memory_id, content |-> intern(content), created_at |-> isoformat(now)]

\* the chunk rows of one save (memory.py:133-141); zip stops at the shorter
new_chunks(memory_id, texts, embeddings) ==
    [i \in 1..min(Len(texts), Len(embeddings)) |->
        [memory_id |-> memory_id, chunk_index |-> i - 1,
         chunk_text |-> intern(texts[i]), embedding |-> embeddings[i]]]

\* a save that replaces the matrix by the new rows instead of stacking them
extend_matrix_unstacked(matrix, embeddings) == embeddings

\* the matrix after a save (memory.py:145-149)
extend_matrix(matrix, embeddings) ==
    IF Len(matrix) > 0 THEN matrix \o embeddings ELSE embeddings

\* a save that embeds its chunks one request at a time
embed_requests_per_chunk(texts) == [i \in 1..Len(texts) |-> <<intern(texts[i])>>]

\* the requests save sends to the provider (memory.py:129-130): one
\* embeddings.create call whose input is the list of all chunks; the call is
\* not repeated when it raises
embed_requests(texts) == << [i \in 1..Len(texts) |-> intern(texts[i])] >>

SaveOutcomes ==
    {"ok", "embed_error", "write_memories_error", "write_chunks_error"}

\* save(content) (memory.py:114-152); outcome is what the provider and the
\* file system do in this call
save(content) ==
    LET v == _load
        memory_id == strftime(clock + 1)
        ms == Append(v.memories, new_memory(memory_id, content, clock + 2))
    IN  /\ saves < MaxSaves
        /\ UNCHANGED threads
        /\ clock' = clock + 2
        /\ loaded' = TRUE
        /\ memories' = ms
        \* chunks = chunk_text(content) (memory.py:129), its value taken once
        /\ \E texts \in {chunk_text(content, CHUNK_SIZE, CHUNK_OVERLAP)},
              outcome \in SaveOutcomes :
            LET embeddings == _embed_batch(texts)
                cs == v.chunks \o new_chunks(memory_id, texts, embeddings)
                matrix == extend_matrix(v.chunk_embeddings, embeddings)
            IN  /\ fault(outcome)
                /\ IF outcome = "embed_error"
                   THEN /\ chunks' = v.chunks
                        /\ chunk_embeddings' = v.chunk_embeddings
                        /\ UNCHANGED <<memories_file, chunks_file>>
                   ELSE /\ chunks' = cs
                        /\ chunk_embeddings' = matrix
                        /\ memories_file' = _save(ms, cs, outcome).memories_file
                        /\ chunks_file' = _save(ms, cs, outcome).chunks_file
                /\ stored' = IF outcome = "ok" THEN stored \cup {memory_id}
                             ELSE stored
                /\ last' = [op |-> "save", content |-> ms[Len(ms)].content,
                            outcome |-> outcome,
                            requests |-> embed_requests(texts),
                            ret |-> IF outcome = "ok" THEN memory_id ELSE Raised]

\* self._memories[self._memories["id"] != memory_id].reset_index(drop=True)
remove_memory(rows, memory_id) ==
    SelectSeq(rows, LAMBDA r : r.id # memory_id)

\* a delete that drops only the first chunk row of the memory
remove_chunks_first_only(rows, memory_id) ==
    SelectSeq(rows, LAMBDA r : ~(r.memory_id = memory_id /\ r.chunk_index = 0))

\* self._chunks[self._chunks["memory_id"] != memory_id].reset_index(drop=True)
remove_chunks(rows, memory_id) ==
    SelectSeq(rows, LAMBDA r : r.memory_id # memory_id)

\* a rebuild that stacks the rows left in reverse order
rebuild_matrix_reversed(rows) ==
    [i \in 1..Len(rows) |-> rows[Len(rows) + 1 - i].embedding]

\* the matrix after a delete (memory.py:208-211): rebuilt from the rows left
rebuild_matrix(rows) ==
    IF Len(rows) > 0 THEN vstack_embeddings(rows) ELSE <<>>

\* a delete without the existence check
unknown_id_unchecked(ms, memory_id) == FALSE

\* memory_id not in self._memories["id"].values (memory.py:200)
unknown_id(ms, memory_id) == memory_id \notin values(column(ms, "id"))

DeleteOutcomes == {"ok", "write_memories_error", "write_chunks_error"}

\* the ids a caller may pass: the id of every save there can be, made already
\* (in the table, deleted since, or of a save that failed) or not yet
CallerIds == {strftime(2 * n - 1) : n \in 1..MaxSaves}

\* delete(memory_id) (memory.py:195-214)
delete(memory_id, outcome) ==
    LET v == _load
        ms == remove_memory(v.memories, memory_id)
        cs == remove_chunks(v.chunks, memory_id)
        files == _save(ms, cs, outcome)
    IN  /\ loaded' = TRUE
        /\ UNCHANGED <<clock, threads>>
        /\ fault(outcome)
        /\ IF unknown_id(v.memories, memory_id)
           THEN /\ outcome = "ok"
                /\ memories' = v.memories
                /\ chunks' = v.chunks
                /\ chunk_embeddings' = v.chunk_embeddings
                /\ UNCHANGED <<memories_file, chunks_file, stored>>
                /\ last' = [op |-> "delete", memory_id |-> memory_id,
                            outcome |-> "ok", ret |-> FALSE]
           ELSE /\ memories' = ms
                /\ chunks' = cs
                /\ chunk_embeddings' = rebuild_matrix(cs)
                /\ memories_file' = files.memories_file
                /\ chunks_file' = files.chunks_file
                /\ stored' = IF outcome = "ok" THEN stored \ {memory_id} ELSE stored
                /\ last' = [op |-> "delete", memory_id |-> memory_id,
                            outcome |-> outcome,
                            ret |-> IF outcome = "ok" THEN TRUE ELSE Raised]

\* get_all() (memory.py:190-193)
get_all ==
    LET v == _load
    IN  /\ loaded' = TRUE
        /\ memories' = v.memories
        /\ chunks' = v.chunks
        /\ chunk_embeddings' = v.chunk_embeddings
        /\ UNCHANGED <<memories_file, chunks_file, clock, faults, stored, threads>>
        /\ last' = [op |-> "get_all", outcome |-> "ok",
                    ret |-> IF Len(v.memories) > 0 THEN v.memories ELSE <<>>]

\* the process ends and a new one constructs MemoryManager over the same
\* data directory (memory.py:61-69)
restart ==
    /\ loaded
    /\ loaded' = FALSE
    /\ memories' = <<>>
    /\ chunks' = <<>>
    /\ chunk_embeddings' = <<>>
    /\ UNCHANGED <<memories_file, chunks_file, clock, faults, stored, threads>>
    /\ last' = NoCall

\* self._chunk_embeddings @ query_embedding (memory.py:162)
similarities(matrix, query_embedding) ==
    [i \in 1..Len(matrix) |-> dot(matrix[i], query_embedding)]

RECURSIVE sum_at(_, _)
sum_at(sims, idxs) ==
    IF idxs = {} THEN 0
    ELSE LET i == CHOOSE j \in idxs : TRUE
         IN  sims[i] + sum_at(sims, idxs \ {i})

\* a groupby that takes the mean of a memory's chunk similarities
group_score_mean(cs, sims, memory_id) ==
    LET idxs == {j \in 1..Len(cs) : cs[j].memory_id = memory_id}
    IN  sum_at(sims, idxs) \div Cardinality(idxs)

\* groupby("memory_id")["similarity"].max() for one memory_id (memory.py:169)
group_score(cs, sims, memory_id) ==
    maximum({sims[i] : i \in {j \in 1..Len(cs) : cs[j].memory_id = memory_id}})

\* best_per_memory before the sort: memory_id -> similarity
best_per_memory(cs, sims) ==
    [memory_id \in values(column(cs, "memory_id")) |->
        group_score(cs, sims, memory_id)]

\* a sort in ascending order
sorted_before_ascending(a, b) == a.similarity <= b.similarity

\* row a may stand before row b after sort_values("similarity", ascending=False)
sorted_before(a, b) == a.similarity >= b.similarity

\* the orders a descending sort may leave a set of rows in: a row that may
\* stand before every other comes first, then the rest in such an order;
\* rows of equal similarity may come out either way
RECURSIVE orders(_)
orders(rows) ==
    IF rows = {} THEN {<<>>}
    ELSE UNION {{<<r>> \o rest : rest \in orders(rows \ {r})} :
                  r \in {x \in rows : \A y \in rows : sorted_before(x, y)}}

\* best_per_memory.sort_values("similarity", ascending=False) (memory.py:170)
sort_values(best) ==
    orders({[memory_id |-> id, similarity |-> best[id]] : id \in DOMAIN best})

\* a test that asks for both conditions
include_both(sim, n_results, threshold, min_results) ==
    sim >= threshold /\ n_results < min_results

\* the test of memory.py:177
include(sim, n_results, threshold, min_results) ==
    sim >= threshold \/ n_results < min_results

\* self._memories[self._memories["id"] == memory_id] (memory.py:178)
memory_rows(ms, memory_id) == SelectSeq(ms, LAMBDA r : r.id = memory_id)

\* the dict appended to results (memory.py:179-184)
result_entry(row, memory) ==
    [id |-> row.memory_id, content |-> memory.content,
     similarity |-> row.similarity, created_at |-> memory.created_at]

\* a loop that stops at the first row below the threshold, whether or not
\* the results have reached min_results by then
RECURSIVE search_loop_stops_below_threshold(_, _, _, _, _, _)
search_loop_stops_below_threshold(ord, k, results, threshold, min_results, ms) ==
    IF k > Len(ord) THEN [results |-> results, error |-> FALSE]
    ELSE IF ord[k].similarity >= threshold
         THEN LET found == memory_rows(ms, ord[k].memory_id)
              IN  IF found = <<>>
                  THEN [results |-> results, error |-> TRUE]
                  ELSE search_loop_stops_below_threshold(ord, k + 1,
                          Append(results, result_entry(ord[k], found[1])),
                          threshold, min_results, ms)
         ELSE [results |-> results, error |-> FALSE]

\* the loop of memory.py:173-186 from row k on; .iloc[0] of no row raises
RECURSIVE search_loop(_, _, _, _, _, _)
search_loop(ord, k, results, threshold, min_results, ms) ==
    IF k > Len(ord) THEN [results |-> results, error |-> FALSE]
    ELSE IF include(ord[k].similarity, Len(results), threshold, min_results)
         THEN LET found == memory_rows(ms, ord[k].memory_id)
              IN  IF found = <<>>
                  THEN [results |-> results, error |-> TRUE]
                  ELSE search_loop(ord, k + 1,
                                   Append(results, result_entry(ord[k], found[1])),
                                   threshold, min_results, ms)
         ELSE [results |-> results, error |-> FALSE]

SearchOutcomes == {"ok", "embed_error"}

\* search(query, threshold, min_results) (memory.py:154-188); outcome says
\* whether the embedding call, if one is made, succeeds.  Assigning a
\* similarity column of another length than the chunk table raises.
search(query, threshold, min_results, outcome) ==
    LET v == _load
        call == [op |-> "search", query |-> query,
                 threshold |-> threshold, min_results |-> min_results,
                 outcome |-> "ok", embed_calls |-> 1,
                 order |-> <<>>, ret |-> <<>>]
        raised(error) == [call EXCEPT !.outcome = error, !.ret = Raised]
    IN  /\ loaded' = TRUE
        /\ memories' = v.memories
        /\ chunks' = v.chunks
        /\ chunk_embeddings' = v.chunk_embeddings
        /\ UNCHANGED <<memories_file, chunks_file, clock, stored, threads>>
        /\ fault(outcome)
        /\ IF Len(v.chunks) = 0
           THEN /\ outcome = "ok"
                /\ last' = [call EXCEPT !.embed_calls = 0]
           ELSE IF outcome = "embed_error"
           THEN last' = raised("embed_error")
           ELSE IF Len(v.chunk_embeddings) # Len(v.chunks)
           THEN last' = raised("value_error")
           ELSE \E ord \in sort_values(best_per_memory(v.chunks,
                              similarities(v.chunk_embeddings, _embed(query)))) :
                  LET w == search_loop(ord, 1, <<>>, threshold, min_results,
                                       v.memories)
                  IN  last' = IF w.error THEN raised("index_error")
                              ELSE [call EXCEPT !.order = ord, !.ret = w.results]

\* calls on the one MemoryManager; they touch nothing outside the store
Next ==
    \/ \E content \in Contents : save(content) /\ UNCHANGED app_vars
    \/ \E memory_id \in CallerIds, outcome \in DeleteOutcomes :
          delete(memory_id, outcome) /\ UNCHANGED app_vars
    \/ \E call \in Searches, outcome \in SearchOutcomes :
          search(call[1], call[2], call[3], outcome) /\ UNCHANGED app_vars
    \/ get_all /\ UNCHANGED app_vars
    \/ restart /\ UNCHANGED app_vars

Spec == Init /\ [][Next]_vars

\* datetime.now() (memory.py:118, 124) is the wall clock in naive local
\* time: it repeats values when it is set back (a time-service step, the end
\* of daylight saving time) or when its resolution is coarser than the time
\* between two saves.  The next save then reads the ticks of the save before.
clock_stalls ==
    /\ clock >= 2
    /\ faults < MaxFaults
    /\ faults' = faults + 1
    /\ clock' = clock - 2
    /\ UNCHANGED <<loaded, memories, chunks, chunk_embeddings, memories_file,
                   chunks_file, stored, threads, last>>

NextStalledClock ==
    \/ Next
    \/ clock_stalls /\ UNCHANGED app_vars

\* the store under a clock that may repeat its values
SpecStalledClock == Init /\ [][NextStalledClock]_vars

(***************************************************************************)
(* Calls from several threads on one instance.  MemoryManager takes no     *)
(* lock, so a thread may be switched out between any two statements of a   *)
(* method.  One step below is a run of statements of one thread between    *)
(* two accesses to self._memories, self._chunks, self._chunk_embeddings or *)
(* the files that another thread can tell apart; each statement itself is  *)
(* taken as one step.                                                      *)
(***************************************************************************)
free(t) == threads[t].pc \in {"idle", "done"}

\* thread t enters a call; the results of the calls that have returned by
\* then are dropped, so that the threads at "done" are those of calls that
\* overlapped in time
enter(t, frame) ==
    threads' = [u \in Threads |->
                  IF u = t THEN frame
                  ELSE IF threads[u].pc = "done" THEN Idle ELSE threads[u]]

goto(t, frame) == threads' = [threads EXCEPT ![t] = frame]

\* save, memory.py:116-126: _load, the id, the memory row appended
t_save_append_memory(t, content) ==
    LET v == _load
        memory_id == strftime(clock + 1)
    IN  /\ free(t)
        /\ saves < MaxSaves
        /\ clock' = clock + 2
        /\ loaded' = TRUE
        /\ memories' = Append(v.memories, new_memory(memory_id, content, clock + 2))
        /\ chunks' = v.chunks
        /\ chunk_embeddings' = v.chunk_embeddings
        /\ enter(t, [pc |-> "embed", op |-> "save", memory_id |-> memory_id,
                     content |-> intern(content)])
        /\ UNCHANGED <<memories_file, chunks_file, faults, stored, last>>

\* save, memory.py:129-141: the chunks, the provider's answer, the new rows
t_save_embed(t) ==
    LET f == threads[t]
    IN  /\ f.pc = "embed"
        /\ \E texts \in {chunk_text(text_of(f.content), CHUNK_SIZE, CHUNK_OVERLAP)} :
              goto(t, [pc |-> "append", op |-> "save", memory_id |-> f.memory_id,
                       rows |-> new_chunks(f.memory_id, texts,
                                           _embed_batch(texts))])
        /\ UNCHANGED <<loaded, memories, chunks, chunk_embeddings, memories_file,
                       chunks_file, clock, faults, stored, last>>

\* save, memory.py:142: self._chunks = pd.concat([self._chunks, new_chunks])
t_save_append_chunks(t) ==
    LET f == threads[t]
    IN  /\ f.pc = "append"
        /\ chunks' = chunks \o f.rows
        /\ goto(t, [f EXCEPT !.pc = "stack"])
        /\ UNCHANGED <<loaded, memories, chunk_embeddings, memories_file,
                       chunks_file, clock, faults, stored, last>>

\* save, memory.py:145-149: the matrix extended by the new vectors
t_save_stack(t) ==
    LET f == threads[t]
    IN  /\ f.pc = "stack"
        /\ chunk_embeddings' = extend_matrix(chunk_embeddings,
                                             column(f.rows, "embedding"))
        /\ goto(t, [f EXCEPT !.pc = "persist"])
        /\ UNCHANGED <<loaded, memories, chunks, memories_file, chunks_file,
                       clock, faults, stored, last>>

\* save, memory.py:151-152; delete, memory.py:213-214: _save and the return
t_persist(t) ==
    LET f == threads[t]
        files == _save(memories, chunks, "ok")
    IN  /\ f.pc = "persist"
        /\ memories_file' = files.memories_file
        /\ chunks_file' = files.chunks_file
        /\ goto(t, [pc |-> "done", op |-> f.op, memory_id |-> f.memory_id,
                    ret |-> IF f.op = "save" THEN f.memory_id ELSE TRUE,
                    rows |-> f.rows])
        /\ UNCHANGED <<loaded, memories, chunks, chunk_embeddings, clock,
                       faults, stored, last>>

\* delete, memory.py:197-204: _load, the existence check, the memory row
\* removed
t_delete_remove_memory(t, memory_id) ==
    LET v == _load
    IN  /\ free(t)
        /\ loaded' = TRUE
        /\ chunks' = v.chunks
        /\ chunk_embeddings' = v.chunk_embeddings
        /\ IF unknown_id(v.memories, memory_id)
           THEN /\ memories' = v.memories
                /\ enter(t, [pc |-> "done", op |-> "delete",
                             memory_id |-> memory_id, ret |-> FALSE])
           ELSE /\ memories' = remove_memory(v.memories, memory_id)
                /\ enter(t, [pc |-> "chunks", op |-> "delete",
                             memory_id |-> memory_id, rows |-> <<>>])
        /\ UNCHANGED <<memories_file, chunks_file, clock, faults, stored, last>>

\* delete, memory.py:207: the chunk rows of the memory removed
t_delete_remove_chunks(t) ==
    LET f == threads[t]
    IN  /\ f.pc = "chunks"
        /\ chunks' = remove_chunks(chunks, f.memory_id)
        /\ goto(t, [f EXCEPT !.pc = "rebuild"])
        /\ UNCHANGED <<loaded, memories, chunk_embeddings, memories_file,
                       chunks_file, clock, faults, stored, last>>

\* delete, memory.py:208-211: the matrix rebuilt from self._chunks
t_delete_rebuild(t) ==
    LET f == threads[t]
    IN  /\ f.pc = "rebuild"
        /\ chunk_embeddings' = rebuild_matrix(chunks)
        /\ goto(t, [f EXCEPT !.pc = "persist"])
        /\ UNCHANGED <<loaded, memories, chunks, memories_file, chunks_file,
                       clock, faults, stored, last>>

\* search, memory.py:156-159: _load and the test for an empty chunk table
t_search_enter(t, query, threshold, min_results) ==
    LET v == _load
    IN  /\ free(t)
        /\ loaded' = TRUE
        /\ memories' = v.memories
        /\ chunks' = v.chunks
        /\ chunk_embeddings' = v.chunk_embeddings
        /\ enter(t, IF Len(v.chunks) = 0
                    THEN [pc |-> "done", op |-> "search", outcome |-> "ok",
                          matrix |-> <<>>, embeddings |-> <<>>, ret |-> <<>>]
                    ELSE [pc |-> "dot", op |-> "search", query |-> query,
                          threshold |-> threshold, min_results |-> min_results])
        /\ UNCHANGED <<memories_file, chunks_file, clock, faults, stored, last>>

\* search, memory.py:161-162: the query embedded, then the matrix read
t_search_dot(t) ==
    LET f == threads[t]
    IN  /\ f.pc = "dot"
        /\ goto(t, [pc |-> "rank", op |-> "search", query |-> f.query,
                    threshold |-> f.threshold, min_results |-> f.min_results,
                    matrix |-> chunk_embeddings])
        /\ UNCHANGED <<loaded, memories, chunks, chunk_embeddings, memories_file,
                       chunks_file, clock, faults, stored, last>>

\* search, memory.py:165-188: the chunk table read and given the
\* similarities as a column (which raises when the lengths differ), the
\* groups, the sort and the loop over self._memories.  The frame keeps the
\* matrix and the chunk rows' embeddings this search has worked with.
t_search_rank(t) ==
    LET f == threads[t]
        done(outcome, ret) ==
            goto(t, [pc |-> "done", op |-> "search", outcome |-> outcome,
                     matrix |-> f.matrix,
                     embeddings |-> column(chunks, "embedding"), ret |-> ret])
    IN  /\ f.pc = "rank"
        /\ IF Len(f.matrix) # Len(chunks)
           THEN done("value_error", Raised)
           ELSE \E ord \in sort_values(best_per_memory(chunks,
                              similarities(f.matrix, _embed(f.query)))) :
                  LET w == search_loop(ord, 1, <<>>, f.threshold, f.min_results,
                                       memories)
                  IN  IF w.error THEN done("index_error", Raised)
                      ELSE done("ok", w.results)
        /\ UNCHANGED <<loaded, memories, chunks, chunk_embeddings, memories_file,
                       chunks_file, clock, faults, stored, last>>

\* get_all, memory.py:192-193
t_get_all(t) ==
    LET v == _load
    IN  /\ free(t)
        /\ loaded' = TRUE
        /\ memories' = v.memories
        /\ chunks' = v.chunks
        /\ chunk_embeddings' = v.chunk_embeddings
        /\ enter(t, [pc |-> "done", op |-> "get_all", ret |-> v.memories])
        /\ UNCHANGED <<memories_file, chunks_file, clock, faults, stored, last>>

\* what the threads are given to save and to search for
ThreadContents == {TextD, TextC}
ThreadSearches == {<<QueryX, SIMILARITY_THRESHOLD, MIN_RESULTS>>}

NextThreads ==
    \E t \in Threads :
       \/ \E content \in ThreadContents : t_save_append_memory(t, content) /\ UNCHANGED app_vars
       \/ t_save_embed(t) /\ UNCHANGED app_vars
       \/ t_save_append_chunks(t) /\ UNCHANGED app_vars
       \/ t_save_stack(t) /\ UNCHANGED app_vars
       \/ \E memory_id \in CallerIds : t_delete_remove_memory(t, memory_id) /\ UNCHANGED app_vars
       \/ t_delete_remove_chunks(t) /\ UNCHANGED app_vars
       \/ t_delete_rebuild(t) /\ UNCHANGED app_vars
       \/ t_persist(t) /\ UNCHANGED app_vars
       \/ \E call \in ThreadSearches :
             t_search_enter(t, call[1], call[2], call[3]) /\ UNCHANGED app_vars
       \/ t_search_dot(t) /\ UNCHANGED app_vars
       \/ t_search_rank(t) /\ UNCHANGED app_vars
       \/ t_get_all(t) /\ UNCHANGED app_vars

\* one MemoryManager called from the threads of one process
SpecThreads == Init /\ [][NextThreads]_vars

(***************************************************************************)
(* A provider whose vectors have another dimension than EMBEDDING_DIM: the *)
(* model behind EMBEDDING_MODEL is replaced, or the endpoint is asked for  *)
(* shortened vectors.  save has no test of the dimension (memory.py:130-   *)
(* 149); what decides is np.vstack, which raises for rows of two widths.   *)
(***************************************************************************)
\* _embed_batch(texts) (memory.py:106-112) with such a provider: one vector
\* per input, each one component longer
wider_embeddings(texts) ==
    [i \in 1..Len(texts) |-> embedding_of(texts[i]) \o <<0>>]

\* save(content) (memory.py:114-152) when the provider answers with vectors
\* of another dimension: with rows in the matrix np.vstack raises at line
\* 147, after lines 126 and 142 have appended to the tables; with no rows
\* line 149 takes the new matrix as it is
save_other_dimension(content) ==
    LET v == _load
        memory_id == strftime(clock + 1)
        ms == Append(v.memories, new_memory(memory_id, content, clock + 2))
    IN  /\ saves < MaxSaves
        /\ faults < MaxFaults
        /\ faults' = faults + 1
        /\ UNCHANGED threads
        /\ clock' = clock + 2
        /\ loaded' = TRUE
        /\ memories' = ms
        /\ \E texts \in {chunk_text(content, CHUNK_SIZE, CHUNK_OVERLAP)} :
            LET embeddings == wider_embeddings(texts)
                cs == v.chunks \o new_chunks(memory_id, texts, embeddings)
                call == [op |-> "save", content |-> ms[Len(ms)].content,
                         dimension |-> Len(embeddings[1]),
                         requests |-> embed_requests(texts)]
            IN  /\ chunks' = cs
                /\ IF Len(v.chunk_embeddings) > 0
                   THEN /\ chunk_embeddings' = v.chunk_embeddings
                        /\ UNCHANGED <<memories_file, chunks_file, stored>>
                        /\ last' = [outcome |-> "value_error", ret |-> Raised]
                                      @@ call
                   ELSE /\ chunk_embeddings' = embeddings
                        /\ memories_file' = _save(ms, cs, "ok").memories_file
                        /\ chunks_file' = _save(ms, cs, "ok").chunks_file
                        /\ stored' = stored \cup {memory_id}
                        /\ last' = [outcome |-> "ok", ret |-> memory_id] @@ call

\* every vector the instance and the chunk file hold has EMBEDDING_DIM
\* components
fixed_dimension ==
    /\ \A i \in 1..Len(chunk_embeddings) : Len(chunk_embeddings[i]) = EMBEDDING_DIM
    /\ \A i \in 1..Len(chunks) : Len(chunks[i].embedding) = EMBEDDING_DIM
    /\ \A i \in 1..Len(chunks_file.rows) :
          Len(chunks_file.rows[i].embedding) = EMBEDDING_DIM

\* the store up to and including the first save the provider answers with
\* vectors of another dimension
NextDimension ==
    \/ \E content \in Contents :
          fixed_dimension /\ save(content) /\ UNCHANGED app_vars
    \/ \E content \in Contents :
          fixed_dimension /\ save_other_dimension(content) /\ UNCHANGED app_vars
    \/ \E memory_id \in CallerIds, outcome \in DeleteOutcomes :
          fixed_dimension /\ delete(memory_id, outcome) /\ UNCHANGED app_vars
    \/ \E call \in Searches, outcome \in SearchOutcomes :
          /\ fixed_dimension
          /\ search(call[1], call[2], call[3], outcome)
          /\ UNCHANGED app_vars
    \/ fixed_dimension /\ get_all /\ UNCHANGED app_vars
    \/ fixed_dimension /\ restart /\ UNCHANGED app_vars

SpecDimension == Init /\ [][NextDimension]_vars

(***************************************************************************)
(* chunk_text followed through its loop (memory.py:22-55), on every text   *)
(* of up to MaxTextLen characters of a letter, a full stop, a space and a  *)
(* newline.  The frame of the call is in chunker; held counts the          *)
(* sentences the buffer current_chunk has been given since it was started. *)
(***************************************************************************)
Alphabet == {"a", ".", " ", "\n"}

ChunkTexts == UNION {[1..n -> Alphabet] : n \in 0..MaxTextLen}
ChunkSizes == 1..3
ChunkOverlaps == 0..2

\* a call chunk_text(text, chunk_size, overlap) about to run
InitChunk ==
    /\ InitStore
    /\ InitRunner
    /\ InitWebhook
    /\ \E text \in ChunkTexts, chunk_size \in ChunkSizes,
          overlap \in ChunkOverlaps :
          chunker = [pc |-> "called", text |-> text,
                     chunk_size |-> chunk_size, overlap |-> overlap]

\* memory.py:24-31: the short text returned, or the sentence split
chunk_split ==
    /\ chunker.pc = "called"
    /\ chunker' =
         IF Len(chunker.text) <= chunker.chunk_size
         THEN [pc |-> "returned", text |-> chunker.text,
               chunk_size |-> chunker.chunk_size, overlap |-> chunker.overlap,
               ret |-> chunk_text(chunker.text, chunker.chunk_size,
                                  chunker.overlap)]
         ELSE [pc |-> "loop", text |-> chunker.text,
               chunk_size |-> chunker.chunk_size, overlap |-> chunker.overlap,
               sentences |-> resplit(chunker.text, 1), k |-> 1,
               chunks |-> <<>>, current_chunk |-> <<>>, held |-> 0]

\* memory.py:33-49: one pass of the loop, for sentence k
chunk_iterate ==
    /\ chunker.pc = "loop"
    /\ chunker.k <= Len(chunker.sentences)
    /\ \E st \in {chunk_loop(<<chunker.sentences[chunker.k]>>, 1,
                             [chunks |-> chunker.chunks,
                              current_chunk |-> chunker.current_chunk],
                             chunker.chunk_size, chunker.overlap)} :
          chunker' = [chunker EXCEPT
                        !.k = @ + 1,
                        !.chunks = st.chunks,
                        !.current_chunk = st.current_chunk,
                        !.held = IF Len(st.chunks) > Len(chunker.chunks)
                                 THEN 1 ELSE @ + 1]

\* memory.py:51-55: the final chunk and the value returned
chunk_return ==
    /\ chunker.pc = "loop"
    /\ chunker.k > Len(chunker.sentences)
    /\ chunker' = [pc |-> "returned", text |-> chunker.text,
                   chunk_size |-> chunker.chunk_size,
                   overlap |-> chunker.overlap,
                   ret |-> chunk_text(chunker.text, chunker.chunk_size,
                                      chunker.overlap)]

NextChunk ==
    \/ chunk_split /\ UNCHANGED <<store_vars, runner_vars, webhook_vars>>
    \/ chunk_iterate /\ UNCHANGED <<store_vars, runner_vars, webhook_vars>>
    \/ chunk_return /\ UNCHANGED <<store_vars, runner_vars, webhook_vars>>

SpecChunk == InitChunk /\ [][NextChunk]_vars

(***************************************************************************)
(* Two instances over one data directory: the server's long-lived          *)
(* MemoryManager (claude_runner.py:91), whose cache the variables loaded,  *)
(* memories, chunks and chunk_embeddings are, and the instances of the     *)
(* scheduled memory-cleanup task (cron.py:76-81), which runs in a process  *)
(* of its own and calls MemoryManager().get_all() and                      *)
(* MemoryManager().delete(memory_id), each on a new instance.              *)
(***************************************************************************)
\* _load of a new instance (memory.py:76-91): the tables read from the files
fresh_load ==
    LET ms == IF memories_file.exists THEN memories_file.rows ELSE <<>>
        cs == IF chunks_file.exists THEN chunks_file.rows ELSE <<>>
    IN  [memories |-> ms, chunks |-> cs,
         chunk_embeddings |-> IF chunks_file.exists /\ Len(cs) > 0
                              THEN vstack_embeddings(cs) ELSE <<>>]

\* MemoryManager().get_all() in the task (memory.py:190-193)
task_get_all ==
    /\ UNCHANGED <<loaded, memories, chunks, chunk_embeddings, memories_file,
                   chunks_file, clock, faults, stored, threads>>
    /\ last' = [op |-> "get_all", instance |-> "task", outcome |-> "ok",
                ret |-> fresh_load.memories]

\* MemoryManager().delete(memory_id) in the task (memory.py:195-214)
task_delete(memory_id) ==
    LET v == fresh_load
        ms == remove_memory(v.memories, memory_id)
        cs == remove_chunks(v.chunks, memory_id)
        files == _save(ms, cs, "ok")
    IN  /\ UNCHANGED <<loaded, memories, chunks, chunk_embeddings, clock,
                       faults, threads>>
        /\ IF unknown_id(v.memories, memory_id)
           THEN /\ UNCHANGED <<memories_file, chunks_file, stored>>
                /\ last' = [op |-> "delete", instance |-> "task",
                            memory_id |-> memory_id, outcome |-> "ok",
                            ret |-> FALSE]
           ELSE /\ memories_file' = files.memories_file
                /\ chunks_file' = files.chunks_file
                /\ stored' = stored \ {memory_id}
                /\ last' = [op |-> "delete", instance |-> "task",
                            memory_id |-> memory_id, outcome |-> "ok",
                            ret |-> TRUE]

\* the server's calls and the task's, with a provider and a file system
\* that do not fail
NextInstances ==
    \/ \E content \in Contents :
          save(content) /\ faults' = faults /\ UNCHANGED app_vars
    \/ \E memory_id \in CallerIds :
          delete(memory_id, "ok") /\ UNCHANGED app_vars
    \/ \E call \in Searches :
          search(call[1], call[2], call[3], "ok") /\ UNCHANGED app_vars
    \/ get_all /\ UNCHANGED app_vars
    \/ restart /\ UNCHANGED app_vars
    \/ task_get_all /\ UNCHANGED app_vars
    \/ \E memory_id \in CallerIds : task_delete(memory_id) /\ UNCHANGED app_vars

SpecInstances == Init /\ [][NextInstances]_vars

(***************************************************************************)
(* ClaudeRunner (claude_runner.py): the session tracking in sessions.json  *)
(* and run.  A missing sessions.json reads as the empty dict, and a dict   *)
(* without a key for a user reads as NoEntry for that user.  The session   *)
(* transcripts SessionLogger writes are not part of the state.             *)
(***************************************************************************)
\* sessions.pop(user_id, None)
pop(sessions, user_id) == [sessions EXCEPT ![user_id] = NoEntry]

\* a test that finds no session timed out
timed_out_never(t, last_activity) == FALSE

\* time.time() - last_activity > SESSION_TIMEOUT (claude_runner.py:118)
timed_out(t, last_activity) == t - last_activity > SESSION_TIMEOUT

\* get_session_id(user_id) (claude_runner.py:106-124): the value returned
\* and sessions.json after the call
get_session_id(user_id) ==
    LET sessions == sessions_file
        session_data == sessions[user_id]
    IN  IF session_data.session_id = None
        THEN [ret |-> None, sessions_file |-> sessions_file]
        ELSE IF timed_out(time, session_data.last_activity)
        THEN [ret |-> None, sessions_file |-> pop(sessions, user_id)]
        ELSE [ret |-> session_data.session_id, sessions_file |-> sessions_file]

\* update_session(user_id, session_id, finished) (claude_runner.py:126-137)
\* on the dict sessions that _load_sessions has read: the dict it saves
update_session(sessions, user_id, session_id, finished) ==
    IF finished THEN pop(sessions, user_id)
    ELSE [sessions EXCEPT ![user_id] =
             [session_id |-> session_id, last_activity |-> time]]

\* a call of get_session_id
call_get_session_id(user_id) ==
    /\ sessions_file' = get_session_id(user_id).sessions_file
    /\ ran' = [op |-> "get_session_id", user_id |-> user_id, outcome |-> "ok",
               ret |-> get_session_id(user_id).ret]
    /\ UNCHANGED <<time, recorded>>

\* a call of update_session
call_update_session(user_id, session_id, finished) ==
    /\ sessions_file' = update_session(sessions_file, user_id, session_id,
                                       finished)
    /\ recorded' = [recorded EXCEPT ![user_id] =
                      [session_id |-> session_id, finished |-> finished,
                       at |-> time]]
    /\ ran' = [op |-> "update_session", user_id |-> user_id,
               outcome |-> "ok", ret |-> None]
    /\ UNCHANGED time

\* what the claude CLI does in a run: it is not installed, it exits with a
\* code other than 0, it prints something that is not JSON, or it prints the
\* JSON of a result (claude_runner.py:183, 224, 240, 252-278)
CliOutputs ==
    {[kind |-> "not_found"], [kind |-> "exit_nonzero"], [kind |-> "not_json"]}
       \cup {[kind |-> "json", session_id |-> s, conversation_finished |-> f,
              memories_to_save |-> m] :
                s \in SessionIds \cup {None}, f \in BOOLEAN,
                m \in {<<>>, <<TextD>>}}

\* ClaudeResponse(...) as the three fallback returns build it
\* (claude_runner.py:184-192, 229-237, 242-250): the dataclass
\* (claude_runner.py:38-49) has a field code_changes without a default, the
\* calls do not pass it, and the constructor raises TypeError
fallback_response == [outcome |-> "type_error", ret |-> Raised]

\* run(message, user_id, ...) (claude_runner.py:139-299) from the call to the
\* return, with output the CLI's part in it
run(user_id, output) ==
    LET looked == get_session_id(user_id)
        session_id == looked.ret
        call == [op |-> "run", user_id |-> user_id, cli |-> output.kind]
    IN  /\ UNCHANGED time
        /\ IF output.kind = "not_found"
           THEN /\ UNCHANGED <<sessions_file, recorded, store_vars>>
                /\ ran' = fallback_response @@ call
           ELSE IF output.kind \in {"exit_nonzero", "not_json"}
           THEN /\ sessions_file' = looked.sessions_file
                /\ UNCHANGED <<recorded, store_vars>>
                /\ ran' = fallback_response @@ call
           ELSE
             LET new_session_id == IF output.session_id # None
                                   THEN output.session_id ELSE session_id
                 finished == output.conversation_finished
                 response == [send_voice |-> FALSE,
                              conversation_finished |-> finished,
                              memories_to_save |-> Len(output.memories_to_save),
                              session_id |-> new_session_id]
             IN  /\ sessions_file' =
                       IF new_session_id # None
                       THEN update_session(looked.sessions_file, user_id,
                                           new_session_id, finished)
                       ELSE looked.sessions_file
                 /\ recorded' =
                       IF new_session_id # None
                       THEN [recorded EXCEPT ![user_id] =
                               [session_id |-> new_session_id,
                                finished |-> finished, at |-> time]]
                       ELSE recorded
                 /\ IF output.memories_to_save = <<>>
                    THEN /\ UNCHANGED store_vars
                         /\ ran' = [outcome |-> "ok", ret |-> response] @@ call
                    ELSE /\ save(output.memories_to_save[1])
                         /\ ran' = [outcome |-> last'.outcome,
                                    ret |-> IF last'.outcome = "ok"
                                            THEN response ELSE Raised] @@ call

\* time.time() moves on
time_passes ==
    /\ time < MaxTime
    /\ time' = time + 1
    /\ UNCHANGED <<sessions_file, recorded, ran>>

\* the session tracking of one ClaudeRunner, its two methods called one
\* after the other
NextSessions ==
    \/ \E user_id \in Users :
          call_get_session_id(user_id)
             /\ UNCHANGED <<store_vars, chunker, webhook_vars>>
    \/ \E user_id \in Users, session_id \in SessionIds, finished \in BOOLEAN :
          call_update_session(user_id, session_id, finished)
             /\ UNCHANGED <<store_vars, chunker, webhook_vars>>
    \/ time_passes /\ UNCHANGED <<store_vars, chunker, webhook_vars>>

SpecSessions == Init /\ [][NextSessions]_vars

\* the runs of one ClaudeRunner, one after the other
NextRunner ==
    \/ \E user_id \in Users, output \in CliOutputs :
          run(user_id, output) /\ UNCHANGED <<chunker, webhook_vars>>
    \/ time_passes /\ UNCHANGED <<store_vars, chunker, webhook_vars>>

SpecRunner == Init /\ [][NextRunner]_vars

(***************************************************************************)
(* The webhook server (main.py): every delivery of a message starts a task *)
(* running process_message on the one event loop of the process, so a task *)
(* runs without interruption from one await to the next.  messages.json is *)
(* the set of the message ids it holds; _processing_messages, messages.json*)
(* and sessions.json are written by this process.                          *)
(***************************************************************************)
\* the id the platform gives the reply to a message: ids are not reused
ReplyId == [m \in MessageIds |->
              CASE m = "m1" -> "r1" [] m = "m2" -> "r2" [] OTHER -> "r3"]

\* what the CLI does in the runs the server starts
WebhookCliOutputs ==
    {[kind |-> "not_found"],
     [kind |-> "json", session_id |-> "s1", conversation_finished |-> FALSE,
      memories_to_save |-> <<>>]}

\* a test that finds no message in flight
in_flight_unchecked(message_id) == FALSE

\* incoming_message_id in _processing_messages (main.py:138)
in_flight(message_id) == message_id \in _processing_messages

\* MessageStore.is_processed (message_store.py:39-42)
is_processed(message_id) == message_id \in messages_file

\* MessageStore.store (message_store.py:24-32): messages.json after it
store(message_id) == messages_file \cup {message_id}

\* asyncio.create_task(process_message(message_info)) (main.py:123)
handle_webhook(d, message) ==
    /\ tasks[d] = Idle
    /\ tasks' = [tasks EXCEPT ![d] = [pc |-> "created", message |-> message]]
    /\ UNCHANGED <<_processing_messages, messages_file, claude_runs>>

\* process_message from its start to its first await (main.py:128-225):
\* the duplicate check, then by the type of the message the download of the
\* audio, the store of the text and the call of claude.run, or the reply
\* to a message of another type
process_message_begin(d) ==
    /\ tasks[d].pc = "created"
    /\ LET message == tasks[d].message
           incoming_message_id == message.message_id
       IN  IF in_flight(incoming_message_id)
           THEN /\ tasks' = [tasks EXCEPT ![d] =
                               [pc |-> "done", message |-> message,
                                skipped |-> "in-flight"]]
                /\ UNCHANGED <<_processing_messages, messages_file,
                               claude_runs>>
           ELSE IF is_processed(incoming_message_id)
           THEN /\ tasks' = [tasks EXCEPT ![d] =
                               [pc |-> "done", message |-> message,
                                skipped |-> "already processed"]]
                /\ UNCHANGED <<_processing_messages, messages_file,
                               claude_runs>>
           ELSE /\ _processing_messages' =
                      _processing_messages \cup {incoming_message_id}
                /\ IF message.type = "audio"
                   THEN /\ tasks' = [tasks EXCEPT ![d] =
                                       [pc |-> "download",
                                        message |-> message]]
                        /\ UNCHANGED <<messages_file, claude_runs>>
                   ELSE IF message.type = "text"
                   THEN /\ messages_file' = store(incoming_message_id)
                        /\ claude_runs' =
                              [claude_runs EXCEPT ![incoming_message_id] =
                                  @ + 1]
                        /\ tasks' = [tasks EXCEPT ![d] =
                                       [pc |-> "claude", message |-> message]]
                   ELSE /\ tasks' = [tasks EXCEPT ![d] =
                                       [pc |-> "finally", message |-> message,
                                        needs_restart |-> FALSE]]
                        /\ UNCHANGED <<messages_file, claude_runs>>

\* client.download_media and voice.transcribe return or raise
\* (main.py:179-180), then main.py:209-225 or the except block
download_returns(d, ok) ==
    /\ tasks[d].pc = "download"
    /\ LET message == tasks[d].message
           incoming_message_id == message.message_id
       IN  IF ok
           THEN /\ messages_file' = store(incoming_message_id)
                /\ claude_runs' =
                      [claude_runs EXCEPT ![incoming_message_id] = @ + 1]
                /\ tasks' = [tasks EXCEPT ![d] =
                               [pc |-> "claude", message |-> message]]
           ELSE /\ tasks' = [tasks EXCEPT ![d] =
                               [pc |-> "finally", message |-> message,
                                needs_restart |-> FALSE]]
                /\ UNCHANGED <<messages_file, claude_runs>>
    /\ UNCHANGED _processing_messages

\* claude.run returns or raises (main.py:218-260, 267-275), its reads and
\* writes of sessions.json taken at its return: the reply to a response is
\* sent and stored under the id the platform gives it
claude_returns(d, output, code_changes) ==
    /\ tasks[d].pc = "claude"
    /\ run(tasks[d].message.from, output)
    /\ LET message == tasks[d].message
       IN  IF ran'.outcome = "ok"
           THEN /\ messages_file' = store(ReplyId[message.message_id])
                /\ tasks' = [tasks EXCEPT ![d] =
                               [pc |-> "finally", message |-> message,
                                needs_restart |-> code_changes]]
           ELSE /\ tasks' = [tasks EXCEPT ![d] =
                               [pc |-> "finally", message |-> message,
                                needs_restart |-> FALSE]]
                /\ UNCHANGED messages_file
    /\ UNCHANGED <<_processing_messages, claude_runs>>

\* os._exit(0) after a response with code_changes (main.py:263-265), and
\* the start of the next process (main.py:36-37, 41-50): the tasks of the
\* process end with it
exit_for_restart ==
    /\ _processing_messages' = {}
    /\ tasks' = [d \in Deliveries |->
                   IF tasks[d].pc \in {"idle", "done", "killed"} THEN tasks[d]
                   ELSE [pc |-> "killed", message |-> tasks[d].message]]
    /\ IF loaded THEN restart ELSE UNCHANGED store_vars
    /\ UNCHANGED <<messages_file, claude_runs>>

\* the end of process_message (main.py:262-282)
process_message_finally(d) ==
    /\ tasks[d].pc = "finally"
    /\ IF tasks[d].needs_restart
       THEN exit_for_restart
       ELSE /\ _processing_messages' =
                  _processing_messages \ {tasks[d].message.message_id}
            /\ tasks' = [tasks EXCEPT ![d] =
                           [pc |-> "done", message |-> tasks[d].message,
                            skipped |-> "no"]]
            /\ UNCHANGED <<messages_file, claude_runs, store_vars>>

\* the deliveries of the platform and the tasks of the server
NextWebhook ==
    \/ \E d \in Deliveries, message \in Messages :
          handle_webhook(d, message)
             /\ UNCHANGED <<store_vars, chunker, runner_vars>>
    \/ \E d \in Deliveries :
          process_message_begin(d)
             /\ UNCHANGED <<store_vars, chunker, runner_vars>>
    \/ \E d \in Deliveries, ok \in BOOLEAN :
          download_returns(d, ok)
             /\ UNCHANGED <<store_vars, chunker, runner_vars>>
    \/ \E d \in Deliveries, output \in WebhookCliOutputs,
          code_changes \in BOOLEAN :
          claude_returns(d, output, code_changes) /\ UNCHANGED chunker
    \/ \E d \in Deliveries :
          process_message_finally(d) /\ UNCHANGED <<chunker, runner_vars>>

SpecWebhook == Init /\ [][NextWebhook]_vars

(***************************************************************************)
(* Properties.                                                             *)
(***************************************************************************)
ids_of(ms) == values(column(ms, "id"))
owners_of(cs) == values(column(cs, "memory_id"))
persisted(file) == IF file.exists THEN file.rows ELSE <<>>
returned(call, value) == call.outcome = "ok" /\ call.ret = value

\* C1: after any sequence of save and delete calls the embedding matrix has
\* as many rows as the chunk table, and row i of the matrix is the embedding
\* stored in chunk row i.
C1_MatrixMatchesChunks ==
    /\ Len(chunk_embeddings) = Len(chunks)
    /\ \A i \in 1..Len(chunks) : chunk_embeddings[i] = chunks[i].embedding

\* a delete has rebuilt the matrix of a store that earlier saves extended,
\* and rows of another memory are left in it
C1_Witness ==
    /\ last.op = "delete"
    /\ returned(last, TRUE)
    /\ Len(chunk_embeddings) >= 3
    /\ saves >= 2

\* C2: in every reachable state, in memory and in the persisted tables, every
\* memory row has a chunk row with its id and every chunk row's memory_id is
\* the id of a memory row, also after a save or delete that failed part-way.
C2_NoMemoryWithoutChunks ==
    /\ ids_of(memories) = owners_of(chunks)
    /\ ids_of(persisted(memories_file)) = owners_of(persisted(chunks_file))

\* C3: a save whose embedding call fails leaves the memory table, the chunk
\* table, the matrix and the persisted tables as they were before the call.
C3_EmbedFailureWritesNothing ==
    [][(last'.op = "save" /\ last'.outcome = "embed_error")
         => /\ memories' = _load.memories
            /\ chunks' = _load.chunks
            /\ chunk_embeddings' = _load.chunk_embeddings
            /\ UNCHANGED <<memories_file, chunks_file>>]_vars

\* C4: a save in which the write of either table fails leaves the durable
\* state exactly the pair of tables persisted before the save began.
C4_WriteFailureKeepsDurablePair ==
    [][(last'.op = "save"
          /\ last'.outcome \in {"write_memories_error", "write_chunks_error"})
         => UNCHANGED <<memories_file, chunks_file>>]_vars

\* C5: after a save that failed, the next access reloads from durable
\* storage: the tables that access serves equal the persisted tables (stated
\* for the accesses that only read, get_all and search).
C5_ReloadAfterFailedSave ==
    [][(last.op = "save" /\ last.outcome # "ok"
          /\ last'.op \in {"get_all", "search"})
         => /\ memories' = persisted(memories_file)
            /\ chunks' = persisted(chunks_file)]_vars

\* C6: delete of an id that is not in the memory table returns false, raises
\* nothing and leaves the tables, the matrix and the persisted tables as they
\* were; deleting the same id a second time returns false.
C6_DeleteUnknownIsNoOp ==
    [][/\ (last'.op = "delete"
             /\ \A i \in 1..Len(_load.memories) :
                   _load.memories[i].id # last'.memory_id)
          => /\ returned(last', FALSE)
             /\ memories' = _load.memories
             /\ chunks' = _load.chunks
             /\ chunk_embeddings' = _load.chunk_embeddings
             /\ UNCHANGED <<memories_file, chunks_file>>
       /\ (last.op = "delete" /\ ~returned(last, FALSE)
             /\ last'.op = "delete" /\ last'.memory_id = last.memory_id)
          => /\ returned(last', FALSE)
             /\ memories' = memories
             /\ chunks' = chunks
             /\ UNCHANGED <<memories_file, chunks_file>>]_vars

\* a delete returned false for an id that a save had made, on a store that
\* holds other memories
C6_Witness ==
    /\ last.op = "delete"
    /\ returned(last, FALSE)
    /\ last.memory_id[2] < clock
    /\ memories # <<>>
    /\ chunks # <<>>

\* the score search gives memory_id for a query, from a chunk table and its matrix
score(cs, matrix, memory_id, query) ==
    group_score(cs, similarities(matrix, _embed(query)), memory_id)

\* C7: delete of an existing id returns true and removes the memory row and
\* every chunk row it owns; the chunk rows of the other memories remain, in
\* the same order and with the same embeddings, so that search scores every
\* other memory as before.  (When a file write raises there is no return
\* value; the tables in memory are changed in the same way.)
C7_DeleteRemovesOnlyThatMemory ==
    [][(last'.op = "delete"
          /\ \E i \in 1..Len(_load.memories) :
                _load.memories[i].id = last'.memory_id)
         => LET d == last'.memory_id
                v == _load
            IN  /\ last'.outcome = "ok" => last'.ret = TRUE
                /\ ~returned(last', FALSE)
                /\ memories' = SelectSeq(v.memories, LAMBDA r : r.id # d)
                /\ chunks' = SelectSeq(v.chunks, LAMBDA r : r.memory_id # d)
                /\ Len(chunk_embeddings') = Len(chunks')
                /\ \A i \in 1..Len(chunks') :
                      chunk_embeddings'[i] = chunks'[i].embedding
                /\ \A m \in owners_of(v.chunks) \ {d} :
                      \A q \in {QueryX, QueryY} :
                         score(chunks', chunk_embeddings', m, q)
                            = score(v.chunks, v.chunk_embeddings, m, q)]_vars

\* a delete returned true and the three chunk rows of another memory remain
C7_Witness ==
    /\ last.op = "delete"
    /\ returned(last, TRUE)
    /\ Len(memories) >= 1
    /\ \E m \in owners_of(chunks) :
          Cardinality({i \in 1..Len(chunks) : chunks[i].memory_id = m}) = 3

searched == last.op = "search" /\ last.outcome = "ok"

\* the similarities of the chunk rows of memory_id to a query, in row order,
\* from the embeddings stored in the rows
chunk_scores(memory_id, query) ==
    LET rows == SelectSeq(chunks, LAMBDA r : r.memory_id = memory_id)
    IN  [i \in 1..Len(rows) |-> dot(rows[i].embedding, embedding_of(query))]

\* C8: search includes a memory if and only if, walking the memories in
\* descending best-score order, its score is >= threshold or fewer than
\* min_results memories were included before it; the result lists the
\* included memories in that order.  For scores 0.9, 0.5, 0.1 the result is
\* all three with threshold 0.3 and min_results 3, and the first alone with
\* threshold 0.9 and min_results 1.
C8_InclusionRule ==
    searched =>
      LET ord == last.order
          got == column(last.ret, "id")
          in_result(k) == ord[k].memory_id \in values(got)
          before(k) == Cardinality({j \in 1..(k - 1) : in_result(j)})
      IN  /\ values(column(ord, "memory_id")) = owners_of(chunks)
          /\ \A j, k \in 1..Len(ord) :
                j < k => ord[j].similarity >= ord[k].similarity
          /\ \A k \in 1..Len(ord) :
                in_result(k) <=> \/ ord[k].similarity >= last.threshold
                                 \/ before(k) < last.min_results
          /\ got = column(SelectSeq(ord, LAMBDA r : r.memory_id \in values(got)),
                          "memory_id")
          /\ column(ord, "similarity") = <<90, 50, 10>>
             => /\ (last.threshold = 30 /\ last.min_results = 3)
                     => got = column(ord, "memory_id")
                /\ (last.threshold = 90 /\ last.min_results = 1)
                     => got = <<ord[1].memory_id>>

\* the store holds memories of scores 0.9, 0.5 and 0.1 and a search with
\* threshold 0.3 and min_results 3 returned the three, the last one below
\* the threshold
C8_Witness ==
    /\ searched
    /\ column(last.order, "similarity") = <<90, 50, 10>>
    /\ last.threshold = 30 /\ last.min_results = 3
    /\ column(last.ret, "similarity") = <<90, 50, 10>>

\* C9: the list search returns is ordered by similarity descending, holds
\* each memory id at most once, and each entry carries the content and
\* created_at of the memory row with that id.
C9_ResultOrderedUniqueHydrated ==
    searched =>
      LET ret == last.ret
      IN  /\ \A i, j \in 1..Len(ret) :
                i < j => /\ ret[i].similarity >= ret[j].similarity
                         /\ ret[i].id # ret[j].id
          /\ \A i \in 1..Len(ret) :
                /\ \E k \in 1..Len(memories) : memories[k].id = ret[i].id
                /\ \A k \in 1..Len(memories) :
                      memories[k].id = ret[i].id
                        => /\ ret[i].content = memories[k].content
                           /\ ret[i].created_at = memories[k].created_at

\* a search returned two memories of different content and similarity
C9_Witness ==
    /\ searched
    /\ Len(last.ret) >= 2
    /\ last.ret[1].similarity > last.ret[2].similarity
    /\ last.ret[1].content # last.ret[2].content

\* C10: the score of a memory in search is the maximum of the similarities
\* of its chunks to the query: every row of the walk and every entry of the
\* result carries that maximum, and a memory whose chunks score 0.2, 0.95,
\* 0.4 is ranked and thresholded with 0.95.
C10_ScoreIsBestChunk ==
    searched =>
      LET is_max(x, scores) ==
            /\ \E i \in 1..Len(scores) : scores[i] = x
            /\ \A i \in 1..Len(scores) : scores[i] <= x
      IN  /\ \A k \in 1..Len(last.order) :
                is_max(last.order[k].similarity,
                       chunk_scores(last.order[k].memory_id, last.query))
          /\ \A i \in 1..Len(last.ret) :
                is_max(last.ret[i].similarity,
                       chunk_scores(last.ret[i].id, last.query))
          /\ \A m \in owners_of(chunks) :
                (chunk_scores(m, last.query) = <<20, 95, 40>>
                   /\ last.threshold <= 95)
                  => \E i \in 1..Len(last.ret) :
                        /\ last.ret[i].id = m
                        /\ last.ret[i].similarity = 95
                        /\ \A j \in 1..Len(last.ret) :
                              last.ret[j].similarity > 95 => j < i

\* a memory whose chunks score 0.2, 0.95, 0.4 was returned first with
\* similarity 0.95 by a search with threshold 0.9, ahead of a memory of
\* score 0.6
C10_Witness ==
    /\ searched
    /\ last.threshold = 90
    /\ Len(last.ret) >= 1
    /\ chunk_scores(last.ret[1].id, last.query) = <<20, 95, 40>>
    /\ last.ret[1].similarity = 95
    /\ \E k \in 1..Len(last.order) : last.order[k].similarity = 60

\* C11: search on a store with zero memories returns an empty list, raises
\* nothing and makes no call to the embedding provider.
C11_EmptyStoreSearch ==
    (last.op = "search" /\ Len(memories) = 0)
       => returned(last, <<>>) /\ last.embed_calls = 0

\* C12: every save sends the provider exactly one request, whose input is
\* the list of all chunks of the content, and does not repeat it when it
\* fails; every search on a non-empty index sends exactly one request.
C12_OneProviderCallPerOperation ==
    /\ last.op = "save" =>
          \A texts \in {chunk_text(text_of(last.content), CHUNK_SIZE, CHUNK_OVERLAP)} :
              /\ Len(last.requests) = 1
              /\ last.requests[1] = [i \in 1..Len(texts) |-> intern(texts[i])]
              /\ last.outcome = "ok" =>
                    last.requests[1] =
                      column(SelectSeq(chunks, LAMBDA r : r.memory_id = last.ret),
                             "chunk_text")
    /\ (last.op = "search" /\ Len(chunks) > 0) => last.embed_calls = 1

\* a save of a content of three chunks has sent its one request, and so has
\* one whose request failed
C12_Witness ==
    /\ last.op = "save"
    /\ Len(last.requests[1]) = 3
    /\ last.outcome \in {"ok", "embed_error"}
    /\ Len(memories) >= 2

\* C13: when save returns an id or delete returns true, the persisted
\* memory and chunk tables equal the tables in memory.
C13_DurableBeforeReturn ==
    ((last.op = "save" /\ last.outcome = "ok") \/ (last.op = "delete" /\ returned(last, TRUE)))
       => /\ memories_file.exists /\ memories_file.rows = memories
          /\ chunks_file.exists /\ chunks_file.rows = chunks

\* a delete returned true on a store that keeps another memory and its chunks
C13_Witness ==
    /\ last.op = "delete"
    /\ returned(last, TRUE)
    /\ Len(memories) >= 1
    /\ Len(chunks) >= 1
    /\ chunks_file.rows = chunks

\* C14: every save generates an id that no memory in the store has, so no
\* two memory rows share an id, also when two saves read the same clock value.
C14_IdsUnique ==
    \A i, j \in 1..Len(memories) : i # j => memories[i].id # memories[j].id

\* C15: in every reachable state each memory has N >= 1 chunk rows, whose
\* chunk_index values are 0, 1, ..., N-1 in the order of the chunk table.
C15_ChunkIndexContiguous ==
    \A m \in ids_of(memories) \cup owners_of(chunks) :
       LET rows == SelectSeq(chunks, LAMBDA r : r.memory_id = m)
       IN  /\ Len(rows) >= 1
           /\ column(rows, "chunk_index") = [i \in 1..Len(rows) |-> i - 1]

\* C18: an instance reads durable storage on its first access only: the
\* first call works on the persisted tables, every later call on the cached
\* tables, whatever the files hold by then.
C18_LoadOnFirstAccessOnly ==
    [][loaded' =>
         LET ms == IF loaded THEN memories ELSE persisted(memories_file)
             cs == IF loaded THEN chunks ELSE persisted(chunks_file)
             matrix == IF loaded THEN chunk_embeddings
                       ELSE column(persisted(chunks_file), "embedding")
         IN  /\ last'.op \in {"get_all", "search"}
                  => /\ memories' = ms
                     /\ chunks' = cs
                     /\ chunk_embeddings' = matrix
             /\ last'.op = "get_all" => last'.ret = ms
             /\ last'.op = "delete"
                  => /\ memories' = SelectSeq(ms, LAMBDA r : r.id # last'.memory_id)
                     /\ chunks' = IF last'.memory_id \in ids_of(ms)
                                  THEN SelectSeq(cs, LAMBDA r :
                                                   r.memory_id # last'.memory_id)
                                  ELSE cs
             /\ last'.op = "save"
                  => /\ Len(memories') = Len(ms) + 1
                     /\ SubSeq(memories', 1, Len(ms)) = ms
                     /\ Len(chunks') >= Len(cs)
                     /\ SubSeq(chunks', 1, Len(cs)) = cs
                     /\ SubSeq(chunk_embeddings', 1, Len(matrix)) = matrix]_vars

\* get_all has returned the cached memory table while the persisted one
\* differs from it
C18_Witness ==
    /\ loaded
    /\ last.op = "get_all"
    /\ last.ret = memories
    /\ memories # persisted(memories_file)
    /\ memories_file.exists

\* the memory rows of one id are the same in two memory tables
same_memories(a, b) ==
    \A i \in 1..Len(a), j \in 1..Len(b) : a[i].id = b[j].id => a[i] = b[j]

\* the chunk rows of one memory and index are the same in two chunk tables
same_chunks(a, b) ==
    \A i \in 1..Len(a), j \in 1..Len(b) :
       (a[i].memory_id = b[j].memory_id /\ a[i].chunk_index = b[j].chunk_index)
          => a[i] = b[j]

\* C20: a memory is immutable: no call changes the id, content or
\* created_at of a memory that stays in the store, nor the text, index or
\* embedding (in its row and in the matrix) of a chunk that stays, in
\* memory, in the files, or on loading.
C20_MemoriesImmutable ==
    [][/\ (loaded /\ loaded')
            => \/ UNCHANGED <<memories, chunks, chunk_embeddings>>
               \/ /\ same_memories(memories, memories')
                  /\ same_chunks(chunks, chunks')
                  /\ \A i \in 1..Len(chunks), j \in 1..Len(chunks') :
                        (chunks[i].memory_id = chunks'[j].memory_id
                           /\ chunks[i].chunk_index = chunks'[j].chunk_index)
                          => chunk_embeddings[i] = chunk_embeddings'[j]
       /\ (~loaded /\ loaded')
            => /\ same_memories(persisted(memories_file), memories')
               /\ same_chunks(persisted(chunks_file), chunks')
               /\ \A i \in 1..Len(persisted(chunks_file)), j \in 1..Len(chunks') :
                     (chunks_file.rows[i].memory_id = chunks'[j].memory_id
                        /\ chunks_file.rows[i].chunk_index = chunks'[j].chunk_index)
                       => chunk_embeddings'[j] = chunks_file.rows[i].embedding
       /\ \/ UNCHANGED memories_file
          \/ same_memories(persisted(memories_file), persisted(memories_file'))
       /\ \/ UNCHANGED chunks_file
          \/ same_chunks(persisted(chunks_file), persisted(chunks_file'))]_vars

\* a delete has removed the first memory of a store and the chunk rows of a
\* later memory have moved up in the table
C20_Witness ==
    /\ last.op = "delete"
    /\ returned(last, TRUE)
    /\ last.memory_id = strftime(1)
    /\ Len(chunks) >= 3
    /\ Len(memories) >= 2

\* C19: get_all returns exactly one record for every memory that was saved
\* successfully and not deleted since, and no other record; on a store with
\* no memories it returns the empty list.
C19_GetAllReturnsStoredMemories ==
    last.op = "get_all" =>
       /\ ids_of(last.ret) = stored
       /\ Len(last.ret) = Cardinality(stored)

\* C16: a search that runs while a save or a delete runs on the same
\* instance works with a chunk table and a matrix of the same row count, in
\* which every chunk row has its embedding row.
C16_SearchSeesMatchingTables ==
    \A t \in Threads :
       (threads[t].pc = "done" /\ threads[t].op = "search")
          => /\ Len(threads[t].matrix) = Len(threads[t].embeddings)
             /\ threads[t].matrix = threads[t].embeddings
             /\ threads[t].outcome # "value_error"

\* memory_id is in the tables, in memory and persisted, with these chunk rows
present(memory_id, rows) ==
    /\ memory_id \in ids_of(memories)
    /\ memory_id \in ids_of(persisted(memories_file))
    /\ SelectSeq(chunks, LAMBDA r : r.memory_id = memory_id) = rows
    /\ SelectSeq(persisted(chunks_file), LAMBDA r : r.memory_id = memory_id) = rows

\* no table, in memory or persisted, has a row of memory_id
absent(memory_id) ==
    memory_id \notin
       (ids_of(memories) \cup owners_of(chunks)
          \cup ids_of(persisted(memories_file))
          \cup owners_of(persisted(chunks_file)))

\* C17: when two mutating calls (two saves, or a save and a delete) on one
\* instance have overlapped in time and both have returned, the state is
\* one that the two calls leave in some sequential order: a saved memory is
\* there with all its chunk rows unless the other call deleted it, a deleted
\* memory is gone with all its chunk rows, the matrix is the chunk rows'
\* embeddings and the files hold the tables.
C17_OverlappingMutationsSerialized ==
    (\A t \in Threads : threads[t].pc = "done"
                           /\ threads[t].op \in {"save", "delete"})
       => /\ \A t \in Threads :
                LET f == threads[t]
                    deleted_by_other ==
                       \E u \in Threads \ {t} :
                          /\ threads[u].op = "delete"
                          /\ threads[u].memory_id = f.memory_id
                          /\ threads[u].ret = TRUE
                IN  /\ (f.op = "save" /\ ~deleted_by_other)
                          => present(f.memory_id, f.rows)
                    /\ (f.op = "delete" /\ f.ret = TRUE) => absent(f.memory_id)
          /\ chunk_embeddings = column(chunks, "embedding")
          /\ persisted(memories_file) = memories
          /\ persisted(chunks_file) = chunks

\* C21: all stored chunk embeddings have the one fixed dimension: a save
\* whose freshly embedded vectors have another dimension is reported as an
\* error, also when the store has no chunks, and it leaves the tables, the
\* matrix and the files as they were.
C21_DimensionMismatchRejected ==
    [][(/\ last'.op = "save"
        /\ clock' # clock
        /\ "dimension" \in DOMAIN last'
        /\ last'.dimension # EMBEDDING_DIM)
       => /\ last'.ret = Raised
          /\ memories' = _load.memories
          /\ chunks' = _load.chunks
          /\ chunk_embeddings' = _load.chunk_embeddings
          /\ UNCHANGED <<memories_file, chunks_file>>
          /\ \A i \in 1..Len(chunk_embeddings') :
                Len(chunk_embeddings'[i]) = EMBEDDING_DIM]_vars

\* C22: chunk_text(text, chunk_size, overlap) returns the one-element list
\* [text], unmodified, for every text of at most chunk_size characters,
\* the empty text and a text of exactly chunk_size characters included.
C22_ShortTextIsOneChunk ==
    (chunker.pc = "returned" /\ Len(chunker.text) <= chunker.chunk_size)
       => chunker.ret = <<chunker.text>>

\* a text of exactly chunk_size characters that ends in whitespace after a
\* full stop has come back as it is
C22_Witness ==
    /\ chunker.pc = "returned"
    /\ Len(chunker.text) = chunker.chunk_size
    /\ Len(chunker.text) >= 2
    /\ chunker.text[Len(chunker.text)] \in Whitespace
    /\ chunker.text[Len(chunker.text) - 1] = "."
    /\ chunker.ret = <<chunker.text>>

\* s stands in t at the 1-based position p
occurs_at(s, t, p) ==
    /\ p + Len(s) - 1 <= Len(t)
    /\ SubSeq(t, p, p + Len(s) - 1) = s

\* the sentences from the i-th on stand in the chunks from position p of
\* the j-th on, one after the other: each at its first place after the one
\* before it
RECURSIVE in_order(_, _, _, _, _)
in_order(sentences, i, chunks_, j, p) ==
    IF i > Len(sentences) THEN TRUE
    ELSE IF j > Len(chunks_) THEN FALSE
    ELSE LET s == sentences[i]
             places == {q \in p..(Len(chunks_[j]) - Len(s) + 1) :
                          occurs_at(s, chunks_[j], q)}
         IN  IF places # {}
             THEN in_order(sentences, i + 1, chunks_, j,
                           (CHOOSE q \in places : \A r \in places : q <= r)
                              + Len(s))
             ELSE in_order(sentences, i, chunks_, j + 1, 1)

\* C23 as claimed: chunk_text never loses content: the result has at least
\* one chunk, and every sentence of the sentence split stands whole in a
\* chunk, the sentences in the order of the text, none dropped (the overlap
\* seeds are what the chunks hold besides).
C23_SentencesWhole ==
    chunker.pc = "returned"
       => /\ Len(chunker.ret) >= 1
          /\ in_order(resplit(chunker.text, 1), 1, chunker.ret, 1, 1)

\* C23, amended: the result has at least one chunk, and every sentence of
\* the sentence split, trimmed of the whitespace around it, stands in a
\* chunk, the sentences in the order of the text, none dropped.
C23_TrimmedSentencesKept ==
    chunker.pc = "returned"
       => /\ Len(chunker.ret) >= 1
          /\ \E sentences \in {resplit(chunker.text, 1)} :
                in_order([i \in 1..Len(sentences) |-> strip(sentences[i])],
                         1, chunker.ret, 1, 1)

\* a text split into two chunks or more, one of whose sentences has
\* whitespace at an end and a letter inside
C23_Witness ==
    /\ chunker.pc = "returned"
    /\ Len(chunker.ret) >= 2
    /\ \E sentences \in {resplit(chunker.text, 1)} :
          \E i \in 1..Len(sentences) :
             /\ strip(sentences[i]) # sentences[i]
             /\ strip(sentences[i]) # <<>>

\* C24: in chunk_text, for a text longer than chunk_size, whenever adding
\* the next sentence to a non-empty buffer would make the buffer longer than
\* chunk_size, the buffer is closed as a chunk before the sentence is added;
\* so the buffer is longer than chunk_size only when it holds one sentence
\* (an overlap seed may stand before it).
C24_BufferClosedBeforeOverflow ==
    [][(chunker.pc = "loop" /\ chunker'.pc = "loop")
       => LET sentence == chunker.sentences[chunker.k]
              cur == chunker.current_chunk
          IN  /\ (/\ cur # <<>>
                  /\ Len(strip(cur \o <<" ">> \o sentence)) > chunker.chunk_size)
                 => chunker'.chunks = Append(chunker.chunks, strip(cur))
              /\ Len(chunker'.current_chunk) > chunker.chunk_size
                 => chunker'.held = 1]_vars

\* the scan of memory.py:173-186 without the break: the inclusion rule put
\* to every row of ord from the k-th on; the result is the rows included
RECURSIVE scan_all(_, _, _, _, _)
scan_all(ord, k, included, threshold, min_results) ==
    IF k > Len(ord) THEN included
    ELSE scan_all(ord, k + 1,
                  IF \/ ord[k].similarity >= threshold
                     \/ Len(included) < min_results
                  THEN Append(included, ord[k]) ELSE included,
                  threshold, min_results)

\* C25: the early-terminating scan of search returns what a scan returns
\* that walks all memories in descending order of score and puts the
\* inclusion rule (score >= threshold, or fewer than min_results included so
\* far) to every one of them: no memory after the first excluded one would
\* have been included.
C25_EarlyStopEqualsFullScan ==
    (last.op = "search" /\ last.outcome = "ok" /\ last.embed_calls = 1)
       => /\ {last.order[i].memory_id : i \in 1..Len(last.order)}
                = owners_of(chunks)
          /\ \A i, j \in 1..Len(last.order) :
                i < j => last.order[i].similarity >= last.order[j].similarity
          /\ [i \in 1..Len(last.ret) |->
                [memory_id |-> last.ret[i].id,
                 similarity |-> last.ret[i].similarity]]
                = scan_all(last.order, 1, <<>>, last.threshold,
                           last.min_results)

\* a search that stopped before the end of the rows, after rows that the
\* floor of min_results let in and rows that the threshold let in
C25_Witness ==
    /\ last.op = "search"
    /\ last.outcome = "ok"
    /\ Len(last.ret) >= 1
    /\ Len(last.order) >= Len(last.ret) + 2

\* C30: search and get_all are read-only: whether they return or search
\* fails in the embedding call, they leave the memory table, the chunk
\* table, the matrix and both files as they were, but for the load of the
\* cache on the first access.
C30_ReadsChangeNothing ==
    [][last'.op \in {"search", "get_all"}
       => /\ UNCHANGED <<memories_file, chunks_file>>
          /\ IF loaded
             THEN UNCHANGED <<memories, chunks, chunk_embeddings>>
             ELSE /\ memories' = persisted(memories_file)
                  /\ chunks' = persisted(chunks_file)
                  /\ chunk_embeddings' = column(chunks', "embedding")]_vars

\* a search has failed in its embedding call on a loaded store that holds
\* memories
C30_Witness ==
    /\ last.op = "search"
    /\ last.outcome = "embed_error"
    /\ loaded
    /\ Len(memories) >= 1
    /\ Len(chunks) >= 1

\* C29: with two MemoryManager instances over one data directory (the
\* server's and the one the scheduled memory-cleanup task creates), a memory
\* that one instance deleted and persisted is not in durable storage again
\* after a later save or delete through the other, and a memory that one
\* instance saved is not removed from durable storage by a later mutation
\* through the other: the memory file holds the ids that were saved and not
\* deleted since.
C29_InstancesKeepDurableStore ==
    ids_of(persisted(memories_file)) = stored

\* C27: get_session_id(user) returns a session id only if update_session
\* recorded it for that user with finished=false at most SESSION_TIMEOUT
\* before, and no update_session with finished=true for that user happened
\* since; when it finds an entry older than the timeout it returns None and
\* removes that user's entry from the sessions file, leaving the entries of
\* the other users as they were.
C27_SessionOnlyWithinTimeout ==
    [][(ran'.op = "get_session_id" /\ time' = time)
       => LET user_id == ran'.user_id
              entry == sessions_file[user_id]
              update == recorded[user_id]
          IN  /\ ran'.ret # None
                 => /\ update.finished = FALSE
                    /\ update.session_id = ran'.ret
                    /\ time - update.at <= SESSION_TIMEOUT
              /\ (/\ entry.session_id # None
                  /\ time - entry.last_activity > SESSION_TIMEOUT)
                 => /\ ran'.ret = None
                    /\ sessions_file' = [sessions_file EXCEPT ![user_id] = NoEntry]
              /\ \A other \in Users \ {user_id} :
                    sessions_file'[other] = sessions_file[other]]_vars

\* get_session_id has found the entry of a user older than the timeout and
\* removed it, and the entry of another user is in the file
C27_Witness ==
    /\ ran.op = "get_session_id"
    /\ ran.ret = None
    /\ recorded[ran.user_id].finished = FALSE
    /\ time - recorded[ran.user_id].at > SESSION_TIMEOUT
    /\ sessions_file[ran.user_id] = NoEntry
    /\ \E other \in Users \ {ran.user_id} :
          sessions_file[other].session_id # None

\* C28: when the Claude CLI is not found, exits with a non-zero code or
\* prints output that is not JSON, run returns a ClaudeResponse with
\* fallback text, send_voice=false, no memories to save and
\* session_id=None, raises no exception, and leaves the session tracking
\* file and the memory store as they were.
C28_FallbackOnCliFailure ==
    [][(/\ ran'.op = "run"
        /\ time' = time
        /\ ran'.cli \in {"not_found", "exit_nonzero", "not_json"})
       => /\ ran'.outcome = "ok"
          /\ ran'.ret.send_voice = FALSE
          /\ ran'.ret.memories_to_save = 0
          /\ ran'.ret.session_id = None
          /\ UNCHANGED <<sessions_file, loaded, memories, chunks,
                         chunk_embeddings, memories_file, chunks_file>>]_vars

\* C26: whatever the order of the steps of the process_message tasks started
\* for the deliveries of one message id, claude.run is called for that id at
\* most once, and a task that starts while the id is in _processing_messages
\* or in messages.json ends at once as a skipped duplicate, without a call
\* of claude.run and without a change to the set or the file
C26_ClaudeRunsOncePerMessage ==
    [][/\ \A m \in MessageIds : claude_runs'[m] <= 1
       /\ \A d \in Deliveries :
            (/\ tasks[d].pc = "created"
             /\ tasks'[d].pc \notin {"created", "killed"}
             /\ \/ tasks[d].message.message_id \in _processing_messages
                \/ tasks[d].message.message_id \in messages_file)
               => /\ tasks'[d].pc = "done"
                  /\ tasks'[d].skipped # "no"
                  /\ UNCHANGED <<_processing_messages, messages_file,
                                 claude_runs>>]_vars

\* claude.run was called for a message, one duplicate delivery of it was
\* skipped while the first was in flight and another one after the first
\* had stored the message and ended
C26_Witness ==
    \E m \in MessageIds :
       /\ claude_runs[m] = 1
       /\ m \notin _processing_messages
       /\ \E d1, d2, d3 \in Deliveries :
            /\ \A d \in {d1, d2, d3} :
                  tasks[d].pc = "done" /\ tasks[d].message.message_id = m
            /\ tasks[d1].skipped = "no"
            /\ tasks[d2].skipped = "in-flight"
            /\ tasks[d3].skipped = "already processed"

====
